---- MODULE Spec2Model ----
(***************************************************************************)
(* A model of pydantic_json_patch (src/pydantic_json_patch/models.py):     *)
(* the JSON Pointer codec, the six operation models and the JsonPatch root *)
(* model.                                                                  *)
(*                                                                         *)
(* A Python str is a sequence of one-character strings: "/a" is            *)
(* <<"/", "a">>.  A tuple of tokens is a sequence of such sequences.  An   *)
(* optional value is a sequence of length 0 (None) or 1 (Some).  A dict is *)
(* a function from its keys to its values.                                 *)
(***************************************************************************)
EXTENDS FiniteSets, Integers, Sequences, TLC

VARIABLES
    cin,      \* codec: the caller's argument, [kind |-> "seq" | "str", val |-> ...]
    accepted, \* codec: Option(BOOLEAN), the verdict of Field(pattern=_JSON_POINTER)
    dec,      \* codec: Option(tuple of tokens), the result of _load_pointer
    enc,      \* codec: Option(str), the result of _dump_pointer
    data,     \* operations: the caller's dict handed to model_validate[_json]
    call,     \* the last entry point called, [fn |-> ..., cls |-> ..., mode |-> ...]
    kwargs,   \* operations: the keyword arguments handed to cls.create
    dump,     \* operations: the dump made, [by_alias |-> ..., mode |-> ...]
    op,       \* operations: Option(result) of the validation or of create
    wire,     \* operations: Option(dict), the result of model_dump[_json]
    op2,      \* operations: Option(result) of validating the dump again
    items,    \* patch: the caller's collection handed to JsonPatch
    patch,    \* patch: Option(result) of JsonPatch(...) / model_validate_json
    ret,      \* patch: Option(value) returned by the last sequence method
    cached,   \* tokens: the operation's __dict__ entries cached_property wrote
    lru,      \* tokens: the lru_cache of _load_pointer and of _decode_token
    threads,  \* tokens: each reading thread's position in the attribute access
    raised    \* the exception the last call raised, "" when it returned

codecVars == <<cin, accepted, dec, enc>>
opVars    == <<data, kwargs, call, dump, op, wire, op2>>
patchVars == <<items, patch, ret>>
tokenVars == <<cached, lru, threads>>
vars      == <<cin, accepted, dec, enc, data, kwargs, call, dump, op, wire, op2,
               items, patch, ret, cached, lru, threads, raised>>

None    == <<>>
Some(v) == <<v>>

(***************************************************************************)
(* Bounds                                                                  *)
(***************************************************************************)
\* tokens + characters of a raw token tuple handed to _dump_pointer
MaxSegSize == 4
\* characters of a pointer string handed to the pattern check
MaxLen == 4
\* characters of a pointer string in a dict handed to the validation
MaxPtrLen == 2
\* tokens + characters of a raw token tuple handed to create
MaxCreateSize == 2
\* operations in a collection handed to JsonPatch
MaxOps == 2

Alphabet == {"/", "~", "0", "1", "a"}

Strings(A, n) == UNION {[1..k -> A] : k \in 0..n}

\* every tuple of tokens over Alphabet with Len(tuple) + characters <= n
RECURSIVE TokenTuples(_)
TokenTuples(n) ==
    IF n <= 0 THEN {<<>>}
    ELSE {<<>>} \cup
         UNION {{<<t>> \o rest : rest \in TokenTuples(n - 1 - Len(t))} :
                t \in Strings(Alphabet, n - 1)}

(***************************************************************************)
(* Python's str methods, as CPython computes them                          *)
(***************************************************************************)
\* s.replace(old, new): leftmost, non-overlapping occurrences
RECURSIVE replace(_, _, _)
replace(s, old, new) ==
    IF Len(s) < Len(old) THEN s
    ELSE IF SubSeq(s, 1, Len(old)) = old
         THEN new \o replace(SubSeq(s, Len(old) + 1, Len(s)), old, new)
         ELSE <<s[1]>> \o replace(Tail(s), old, new)

\* s.split(sep) for a one-character sep: never empty, "" gives [""]
RECURSIVE split(_, _)
split(s, sep) ==
    IF \A i \in 1..Len(s) : s[i] # sep THEN <<s>>
    ELSE LET i == CHOOSE k \in 1..Len(s) :
                      s[k] = sep /\ \A j \in 1..(k - 1) : s[j] # sep
         IN  <<SubSeq(s, 1, i - 1)>> \o split(SubSeq(s, i + 1, Len(s)), sep)

\* sep.join(parts)
RECURSIVE join(_, _)
join(sep, parts) ==
    IF parts = <<>> THEN <<>>
    ELSE IF Len(parts) = 1 THEN parts[1]
    ELSE parts[1] \o sep \o join(sep, Tail(parts))

(***************************************************************************)
(* The pointer codec                                                       *)
(***************************************************************************)
\* the rest of a match of (?:/(?:[^/~]|~[01])*)*$ once the first "/" was read
RECURSIVE SegmentsMatch(_)
SegmentsMatch(s) ==
    IF s = <<>> THEN TRUE
    ELSE IF s[1] = "/" THEN SegmentsMatch(Tail(s))
    ELSE IF s[1] = "~"
         THEN /\ Len(s) >= 2
              /\ s[2] \in {"0", "1"}
              /\ SegmentsMatch(SubSeq(s, 3, Len(s)))
    ELSE SegmentsMatch(Tail(s))

\* _JSON_POINTER = re.compile(r"^(?:/(?:[^/~]|~[01])*)*$"), searched in s
JSON_POINTER(s) ==
    s = <<>> \/ (s[1] = "/" /\ SegmentsMatch(Tail(s)))

\* Mutant: unescape "~0" before "~1"
_decode_token_swapped(token) ==
    replace(replace(token, <<"~", "0">>, <<"~">>), <<"~", "1">>, <<"/">>)

_decode_token(token) ==
    replace(replace(token, <<"~", "1">>, <<"/">>), <<"~", "0">>, <<"~">>)

\* Mutant: escape "/" before "~"
_encode_token_swapped(token) ==
    replace(replace(token, <<"/">>, <<"~", "1">>), <<"~">>, <<"~", "0">>)

_encode_token(token) ==
    replace(replace(token, <<"~">>, <<"~", "0">>), <<"/">>, <<"~", "1">>)

\* pointer: [kind |-> "str", val |-> str] or [kind |-> "seq", val |-> tokens]
_dump_pointer(pointer) ==
    IF pointer.kind = "str" THEN pointer.val
    ELSE join(<<"/">>,
              <<<<>>>> \o [i \in 1..Len(pointer.val) |->
                              _encode_token(pointer.val[i])])

_load_pointer(pointer) ==
    LET parts == Tail(split(pointer, "/"))
    IN  [i \in 1..Len(parts) |-> _decode_token(parts[i])]

Str(s)   == [kind |-> "str", val |-> s]
Tuple(t) == [kind |-> "seq", val |-> t]

(***************************************************************************)
(* Values of the variables a specification does not use                    *)
(***************************************************************************)
NoDict == [k \in {} |-> <<>>]
NoCall == [fn |-> "", cls |-> "", mode |-> ""]
NoDump == [by_alias |-> FALSE, mode |-> ""]

CodecIdle == /\ cin = Str(<<>>)
             /\ accepted = None
             /\ dec = None
             /\ enc = None

OpIdle == /\ data = NoDict
          /\ call = NoCall
          /\ kwargs = NoDict
          /\ dump = NoDump
          /\ op = None
          /\ wire = None
          /\ op2 = None

PatchIdle == /\ items = [kind |-> "list", val |-> <<>>]
             /\ patch = None
             /\ ret = None

NThreads == 2
Threads  == 1..NThreads

NoCache == [load |-> NoDict, decode |-> NoDict]
NoRead  == [pc |-> "idle", prop |-> "", val |-> None, got |-> None]

TokenIdle == /\ cached = NoDict
             /\ lru = NoCache
             /\ threads = [t \in Threads |-> NoRead]

(***************************************************************************)
(* The codec, called on its own                                            *)
(***************************************************************************)
CodecInit ==
    /\ cin \in {Tuple(t) : t \in TokenTuples(MaxSegSize)}
               \cup {Str(s) : s \in Strings(Alphabet, MaxLen)}
    /\ accepted = None
    /\ dec = None
    /\ enc = None
    /\ OpIdle
    /\ PatchIdle
    /\ TokenIdle
    /\ raised = ""

\* Field(pattern=_JSON_POINTER) applied to a str
CheckPattern ==
    /\ cin.kind = "str"
    /\ accepted = None
    /\ accepted' = Some(JSON_POINTER(cin.val))
    /\ UNCHANGED <<cin, dec, enc, opVars, patchVars, tokenVars, raised>>

\* _dump_pointer(tokens)
DumpTokens ==
    /\ cin.kind = "seq"
    /\ enc = None
    /\ enc' = Some(_dump_pointer(cin))
    /\ UNCHANGED <<cin, accepted, dec, opVars, patchVars, tokenVars, raised>>

\* _load_pointer(_dump_pointer(tokens))
LoadDumped ==
    /\ cin.kind = "seq"
    /\ enc # None
    /\ dec = None
    /\ dec' = Some(_load_pointer(enc[1]))
    /\ UNCHANGED <<cin, accepted, enc, opVars, patchVars, tokenVars, raised>>

\* _load_pointer(pointer)
LoadPointer ==
    /\ cin.kind = "str"
    /\ dec = None
    /\ dec' = Some(_load_pointer(cin.val))
    /\ UNCHANGED <<cin, accepted, enc, opVars, patchVars, tokenVars, raised>>

\* _dump_pointer(_load_pointer(pointer))
DumpLoaded ==
    /\ cin.kind = "str"
    /\ dec # None
    /\ enc = None
    /\ enc' = Some(_dump_pointer(Tuple(dec[1])))
    /\ UNCHANGED <<cin, accepted, dec, opVars, patchVars, tokenVars, raised>>

CodecNext ==
    \/ CheckPattern
    \/ DumpTokens
    \/ LoadDumped
    \/ LoadPointer
    \/ DumpLoaded

Spec == CodecInit /\ [][CodecNext]_vars

(***************************************************************************)
(* Claims about the codec                                                  *)
(***************************************************************************)
\* C1: decoding the pointer that encoding a tuple of tokens produced gives
\* back exactly that tuple: same length, same tokens, same order.
C1_DecodeEncode ==
    (cin.kind = "seq" /\ dec # None) => dec[1] = cin.val

\* C1 witness: a tuple with a token holding the text "~1" went through
\* _dump_pointer and _load_pointer.
C1_Witness ==
    /\ cin.kind = "seq"
    /\ dec # None
    /\ Len(cin.val) = 2
    /\ cin.val[1] = <<"~", "1">>
    /\ cin.val[2] = <<>>
    /\ enc = Some(<<"/", "~", "0", "1", "/">>)

HasEmptySegment(s) == \E i \in 1..(Len(s) - 1) : s[i] = "/" /\ s[i + 1] = "/"
LacksLeadingSlash(s) == s # <<>> /\ s[1] # "/"
HasTrailingSlash(s) == s # <<>> /\ s[Len(s)] = "/"
HasBareTilde(s) ==
    \E i \in 1..Len(s) :
        s[i] = "~" /\ (i = Len(s) \/ s[i + 1] \notin {"0", "1"})

\* C4: a pointer string without a leading slash, with an empty segment from
\* two consecutive slashes, with a trailing slash, or with a '~' not
\* followed by '0' or '1' is rejected.
C4_MalformedRejected ==
    (/\ cin.kind = "str"
     /\ accepted # None
     /\ \/ LacksLeadingSlash(cin.val)
        \/ HasEmptySegment(cin.val)
        \/ HasTrailingSlash(cin.val)
        \/ HasBareTilde(cin.val))
    => accepted = Some(FALSE)

(***************************************************************************)
(* The operation models                                                    *)
(***************************************************************************)
Classes  == {"AddOp", "CopyOp", "MoveOp", "RemoveOp", "ReplaceOp", "TestOp"}
FromOps  == {"CopyOp", "MoveOp"}             \* the subclasses of _FromOp
ValueOps == {"AddOp", "ReplaceOp", "TestOp"} \* the subclasses of _ValueOp

\* op: tp.Literal[...] of each public model
Literal(cls) ==
    CASE cls = "AddOp"     -> "add"
      [] cls = "CopyOp"    -> "copy"
      [] cls = "MoveOp"    -> "move"
      [] cls = "RemoveOp"  -> "remove"
      [] cls = "ReplaceOp" -> "replace"
      [] cls = "TestOp"    -> "test"

\* the tags of Operation's Discriminator("op")
Tags == {Literal(cls) : cls \in Classes}
ClassOf(tag) == CHOOSE cls \in Classes : Literal(cls) = tag

\* cls.model_fields: op and path of _BaseOp, from_ of _FromOp, value of _ValueOp
model_fields(cls) ==
    {"op", "path"}
        \cup (IF cls \in FromOps THEN {"from_"} ELSE {})
        \cup (IF cls \in ValueOps THEN {"value"} ELSE {})

\* from_: str = Field(alias="from", ...)
alias_of(field) == IF field = "from_" THEN "from" ELSE field

\* Mutant: ConfigDict(extra="forbid")
config_extra_forbid == "forbid"

\* ConfigDict(frozen=True, ...) sets no "extra": pydantic's default
config_extra == "ignore"

\* Mutant: ConfigDict(frozen=False)
config_not_frozen == FALSE

\* ConfigDict(frozen=True) of _BaseOp and of JsonPatch
config_frozen == TRUE

\* a value that is no str: the 123 of {"from": 123, ...}
Int123 == <<"#123">>
isinstance_str(v) == v # Int123

\* an input that is no dict
NotADict == [k \in {"#scalar"} |-> <<>>]
isinstance_dict(d) == "#scalar" \notin DOMAIN d

Rename(d, old, new) ==
    [k \in (DOMAIN d \ {old}) \cup {new} |-> IF k = new THEN d[old] ELSE d[k]]

\* _FromOp._pre_validate: data["from"] = data.pop("from_"); return data
_pre_validate(d, mode) ==
    IF /\ mode # "json"
       /\ isinstance_dict(d)
       /\ "from_" \in DOMAIN d
       /\ "from" \notin DOMAIN d
    THEN Rename(d, "from_", "from")
    ELSE d

\* the dict as the mode="before" validators of cls leave it
BeforeValidators(cls, d, mode) ==
    IF cls \in FromOps THEN _pre_validate(d, mode) ELSE d

Ok(v)   == [ok |-> TRUE, val |-> v]
Err(es) == [ok |-> FALSE, errors |-> es]

\* the errors of one field of cls in d, as <<location, error type>>
FieldErrors(cls, field, d) ==
    LET key == alias_of(field) IN
    IF key \notin DOMAIN d THEN {<<key, "missing">>}
    ELSE IF field = "op"
         THEN IF d[key] = Literal(cls) THEN {} ELSE {<<key, "literal_error">>}
    ELSE IF field \in {"path", "from_"}
         THEN IF ~isinstance_str(d[key]) THEN {<<key, "string_type">>}
              ELSE IF ~JSON_POINTER(d[key])
                   THEN {<<key, "string_pattern_mismatch">>}
                   ELSE {}
    ELSE {}

\* the fields validation of cls on d: an instance or every field's errors
ValidateFields(cls, d) ==
    IF ~isinstance_dict(d) THEN Err({<<"", "model_type">>})
    ELSE LET errors ==
                 UNION {FieldErrors(cls, f, d) : f \in model_fields(cls)}
                 \cup (IF config_extra = "forbid"
                       THEN {<<k, "extra_forbidden">> :
                               k \in DOMAIN d \ {alias_of(f) : f \in model_fields(cls)}}
                       ELSE {})
         IN  IF errors # {} THEN Err(errors)
             ELSE Ok([cls    |-> cls,
                      fields |-> [f \in model_fields(cls) |-> d[alias_of(f)]]])

\* cls.model_validate(d) / cls.model_validate_json(d) / cls(**d)
ValidateModel(cls, d, mode) ==
    ValidateFields(cls, BeforeValidators(cls, d, mode))

\* Mutant: a left-to-right union, the first model that validates wins
ValidateOperationSmart(d, mode) ==
    IF \E cls \in Classes :
           ValidateFields(cls, [k \in DOMAIN d |->
               IF k = "op" THEN Literal(cls) ELSE d[k]]).ok
    THEN LET cls == CHOOSE c \in Classes :
                 ValidateFields(c, [k \in DOMAIN d |->
                     IF k = "op" THEN Literal(c) ELSE d[k]]).ok
         IN  ValidateFields(cls, [k \in DOMAIN d |->
                 IF k = "op" THEN Literal(cls) ELSE d[k]])
    ELSE Err({<<"", "no_match">>})

\* Annotated[AddOp | CopyOp | ... | TestOp, Discriminator("op")] on a dict
ValidateOperation(d, mode) ==
    IF ~isinstance_dict(d) THEN Err({<<"", "model_attributes_type">>})
    ELSE IF "op" \notin DOMAIN d THEN Err({<<"", "union_tag_not_found">>})
    ELSE IF d["op"] \notin Tags THEN Err({<<"", "union_tag_invalid">>})
    ELSE ValidateModel(ClassOf(d["op"]), d, mode)

\* the caller's dict after the union validated it
AfterOperation(d, mode) ==
    IF isinstance_dict(d) /\ "op" \in DOMAIN d /\ d["op"] \in Tags
    THEN BeforeValidators(ClassOf(d["op"]), d, mode)
    ELSE d

\* inst.model_dump(by_alias=...) / inst.model_dump_json(by_alias=...)
model_dump(inst, by_alias) ==
    LET name(f) == IF by_alias THEN alias_of(f) ELSE f
    IN  [k \in {name(f) : f \in DOMAIN inst.fields} |->
            inst.fields[CHOOSE f \in DOMAIN inst.fields : name(f) = k]]

\* Mutant: create builds the instance without validating it
_BaseOp_create_unvalidated(cls, path, more) ==
    LET d == ("op" :> Literal(cls)) @@ ("path" :> _dump_pointer(path)) @@ more
    IN  Ok([cls |-> cls, fields |-> [f \in model_fields(cls) |-> d[alias_of(f)]]])

\* _BaseOp.create: cls(op=op, path=cls._dump_pointer(path), **kwargs)
_BaseOp_create(cls, path, more) ==
    ValidateModel(cls,
                  ("op" :> Literal(cls)) @@ ("path" :> _dump_pointer(path)) @@ more,
                  "python")

\* _FromOp.create
_FromOp_create(cls, path, from_) ==
    LET pointer == IF from_.kind = "str" THEN from_.val ELSE _dump_pointer(from_)
    IN  _BaseOp_create(cls, path, ("from" :> pointer))

\* _ValueOp.create
_ValueOp_create(cls, path, value) ==
    _BaseOp_create(cls, path, ("value" :> value))

\* RemoveOp.create
RemoveOp_create(cls, path) ==
    _BaseOp_create(cls, path, NoDict)

\* the keyword-only parameters of cls.create
create_params(cls) ==
    IF cls \in FromOps THEN {"path", "from_"}
    ELSE IF cls \in ValueOps THEN {"path", "value"}
    ELSE {"path"}

\* cls.create(**kw)
create(cls, kw) ==
    IF cls \in FromOps THEN _FromOp_create(cls, kw["path"], kw["from_"])
    ELSE IF cls \in ValueOps THEN _ValueOp_create(cls, kw["path"], kw["value"])
    ELSE RemoveOp_create(cls, kw["path"])

(***************************************************************************)
(* The operation models, validated, created, dumped and validated again    *)
(***************************************************************************)
OpAlphabet == {"/", "~", "0"}
Pointers   == Strings(OpAlphabet, MaxPtrLen)
OpInputs   == Tags \cup {"bogus"}

\* a pointer other than f
Other(f) == IF f = <<"/">> THEN <<>> ELSE <<"/">>

OptKey(k, S) == {NoDict} \cup {(k :> v) : v \in S}

FromParts ==
    {NoDict}
        \cup {("from" :> f) : f \in Pointers \cup {Int123}}
        \cup {("from_" :> f) : f \in Pointers}
        \cup {("from" :> f) @@ ("from_" :> Other(f)) : f \in Pointers}

OpDicts ==
    {a @@ b @@ c @@ d @@ e :
        a \in OptKey("op", OpInputs), b \in OptKey("path", Pointers),
        c \in FromParts, d \in OptKey("value", {42}),
        e \in OptKey("extra", {"ignored"})}
    \cup {NotADict}

PathArgs ==
    {Str(s) : s \in Pointers} \cup {Tuple(t) : t \in TokenTuples(MaxCreateSize)}

CreateKwargs ==
    {("path" :> p) : p \in PathArgs}
        \cup {("path" :> p) @@ ("from_" :> f) : p \in PathArgs, f \in PathArgs}
        \cup {("path" :> p) @@ ("value" :> 42) : p \in PathArgs}

OpInit ==
    /\ \/ data \in OpDicts /\ kwargs = NoDict
       \/ data = NoDict /\ kwargs \in CreateKwargs
    /\ call = NoCall
    /\ dump = NoDump
    /\ op = None
    /\ wire = None
    /\ op2 = None
    /\ CodecIdle
    /\ PatchIdle
    /\ TokenIdle
    /\ raised = ""

Raised(result) == IF result.ok THEN "" ELSE "ValidationError"

\* cls.model_validate(data) and cls.model_validate_json(data)
Validate(cls, m) ==
    /\ kwargs = NoDict
    /\ op = None
    /\ call' = [fn |-> "validate", cls |-> cls, mode |-> m]
    /\ op' = Some(ValidateModel(cls, data, m))
    /\ data' = BeforeValidators(cls, data, m)
    /\ raised' = Raised(ValidateModel(cls, data, m))
    /\ UNCHANGED <<kwargs, dump, wire, op2, codecVars, patchVars, tokenVars>>

\* data validated as an Operation, the element type of JsonPatch
ValidateUnion(m) ==
    /\ kwargs = NoDict
    /\ op = None
    /\ call' = [fn |-> "union", cls |-> "", mode |-> m]
    /\ op' = Some(ValidateOperation(data, m))
    /\ data' = AfterOperation(data, m)
    /\ raised' = Raised(ValidateOperation(data, m))
    /\ UNCHANGED <<kwargs, dump, wire, op2, codecVars, patchVars, tokenVars>>

\* cls.create(**kwargs)
Create(cls) ==
    /\ kwargs # NoDict
    /\ DOMAIN kwargs = create_params(cls)
    /\ op = None
    /\ call' = [fn |-> "create", cls |-> cls, mode |-> "python"]
    /\ op' = Some(create(cls, kwargs))
    /\ raised' = Raised(create(cls, kwargs))
    /\ UNCHANGED <<data, kwargs, dump, wire, op2, codecVars, patchVars, tokenVars>>

\* op.model_dump(by_alias=...) and op.model_dump_json(by_alias=...)
Dump(by_alias, m) ==
    /\ op # None
    /\ op[1].ok
    /\ wire = None
    /\ dump' = [by_alias |-> by_alias, mode |-> m]
    /\ wire' = Some(model_dump(op[1].val, by_alias))
    /\ raised' = ""
    /\ UNCHANGED <<data, kwargs, call, op, op2, codecVars, patchVars, tokenVars>>

\* the dump validated again, the way the operation itself was obtained
Reparse ==
    /\ wire # None
    /\ op2 = None
    /\ LET cls    == op[1].val.cls
           result == IF call.fn = "union"
                     THEN ValidateOperation(wire[1], dump.mode)
                     ELSE ValidateModel(cls, wire[1], dump.mode)
       IN  /\ op2' = Some(result)
           /\ wire' = Some(IF call.fn = "union"
                           THEN AfterOperation(wire[1], dump.mode)
                           ELSE BeforeValidators(cls, wire[1], dump.mode))
           /\ raised' = Raised(result)
    /\ UNCHANGED <<data, kwargs, call, dump, op, codecVars, patchVars, tokenVars>>

OpNext ==
    \/ \E cls \in Classes, m \in {"python", "json"} : Validate(cls, m)
    \/ \E m \in {"python", "json"} : ValidateUnion(m)
    \/ \E cls \in Classes : Create(cls)
    \/ \E by_alias \in BOOLEAN, m \in {"python", "json"} : Dump(by_alias, m)
    \/ Reparse

SpecOp == OpInit /\ [][OpNext]_vars

(***************************************************************************)
(* Claims about the operation models                                       *)
(***************************************************************************)
\* the member names RFC 6902 gives the operation with this tag
WireMembers(tag) ==
    {"op", "path"}
        \cup (IF tag \in {"move", "copy"} THEN {"from"} ELSE {})
        \cup (IF tag \in {"add", "replace", "test"} THEN {"value"} ELSE {})

\* C3: serializing an operation and parsing the serialized form yields an
\* operation equal to the first one, for each of the six variants and for
\* the JSON dump too, move and copy included.
C3_RoundTrip ==
    op2 # None => op2[1] = op[1]

\* d carries member k of the variant: under its wire name, or, for a dict
\* validated in Python mode, "from" under the model's own name from_
Carries(d, m, k) ==
    \/ k \in DOMAIN d
    \/ m = "python" /\ k = "from" /\ "from_" \in DOMAIN d

UnionStep == op = None /\ op' # None /\ call'.fn = "union"

\* C5: through the discriminated union the value of "op" alone selects the
\* variant: an absent or unknown "op" fails, an object that lacks a member
\* its variant requires fails, and a result is always of the variant that
\* "op" names.
C5_DiscriminatorSelects ==
    [][UnionStep =>
        LET r == op'[1]
            m == call'.mode
        IN  /\ (~isinstance_dict(data) \/ "op" \notin DOMAIN data) => ~r.ok
            /\ (isinstance_dict(data) /\ "op" \in DOMAIN data) =>
                  /\ data["op"] \notin {"add", "copy", "move", "remove",
                                        "replace", "test"} => ~r.ok
                  /\ (\E k \in WireMembers(data["op"]) : ~Carries(data, m, k))
                        => ~r.ok
                  /\ r.ok => /\ r.val.fields["op"] = data["op"]
                             /\ Literal(r.val.cls) = data["op"]
                             /\ DOMAIN model_dump(r.val, TRUE)
                                    = WireMembers(data["op"])]_vars

\* C5 witness: {"op": "copy", "path": "/", "value": 42} went through the
\* union and failed.
C5_Witness ==
    /\ call.fn = "union"
    /\ op # None
    /\ ~op[1].ok
    /\ data = ("op" :> "copy") @@ ("path" :> <<"/">>) @@ ("value" :> 42)

ParseStep == op = None /\ op' # None /\ call'.fn \in {"union", "validate"}

Parse(c, d) ==
    IF c.fn = "union" THEN ValidateOperation(d, c.mode)
    ELSE ValidateModel(c.cls, d, c.mode)

\* the members of d that the variant parsed does not define
Extras(c, d) ==
    DOMAIN d \ WireMembers(IF c.fn = "union" THEN d["op"] ELSE Literal(c.cls))

Without(d, keys) == [k \in DOMAIN d \ keys |-> d[k]]

\* C6: an object with members its variant does not define parses to the
\* operation that the same object without those members parses to, and the
\* extra members are not stored: no dump of the result shows them.
C6_ExtrasIgnored ==
    [][(/\ ParseStep
        /\ isinstance_dict(data)
        /\ call'.fn = "union" => "op" \in DOMAIN data
        /\ Extras(call', data) # {}
        /\ Parse(call', Without(data, Extras(call', data))).ok)
       => LET extras == Extras(call', data)
              kept   == IF op'[1].val.fields["op"] \in {"move", "copy"}
                        THEN {"from_"} ELSE {}
          IN  /\ op'[1] = Parse(call', Without(data, extras))
              /\ \A by_alias \in BOOLEAN :
                    DOMAIN model_dump(op'[1].val, by_alias) \cap extras \subseteq kept
              /\ DOMAIN op'[1].val.fields \cap extras \subseteq kept]_vars

\* C6 witness: a test operation with an extra member was parsed and dumped.
C6_Witness ==
    /\ "extra" \in DOMAIN data
    /\ call.fn = "validate"
    /\ call.cls = "TestOp"
    /\ call.mode = "json"
    /\ op # None
    /\ op[1].ok
    /\ wire # None
    /\ DOMAIN wire[1] = {"op", "path", "value"}

\* C9: the member names of a serialized operation are exactly those of its
\* variant on the wire: op and path, from (under that name) for move and
\* copy only, value for add, replace and test only.
C9_WireMembers ==
    (wire # None /\ op2 = None) =>
        DOMAIN wire[1] = WireMembers(op[1].val.fields["op"])

EscapeChar(c) ==
    IF c = "~" THEN <<"~", "0">> ELSE IF c = "/" THEN <<"~", "1">> ELSE <<c>>

RECURSIVE Escape(_)
Escape(token) ==
    IF token = <<>> THEN <<>> ELSE EscapeChar(Head(token)) \o Escape(Tail(token))

RECURSIVE Encode(_)
Encode(tokens) ==
    IF tokens = <<>> THEN <<>>
    ELSE <<"/">> \o Escape(Head(tokens)) \o Encode(Tail(tokens))

\* the pointer create is to store for an argument: the string itself, or
\* the encoding of a raw token tuple
Pointer(arg) == IF arg.kind = "str" THEN arg.val ELSE Encode(arg.val)

\* V(op=<V's tag>, path=P, from_=F, value=v) for the arguments of V.create
Structured(cls, kw) ==
    [k \in DOMAIN kw \cup {"op"} |->
        IF k = "op" THEN Literal(cls)
        ELSE IF k = "value" THEN kw[k]
        ELSE Pointer(kw[k])]

\* C10: V.create(path=p, ...) equals V(op=<V's tag>, path=P, ...), P being p
\* for a string and encode(p) for a raw token tuple, likewise for from_; a
\* string path or from_ outside the pointer grammar makes create fail.
C10_CreateIsStructured ==
    (call.fn = "create" /\ op # None) =>
        /\ op[1] = ValidateModel(call.cls, Structured(call.cls, kwargs), "python")
        /\ op[1].ok =>
              \A k \in DOMAIN kwargs \ {"value"} :
                  op[1].val.fields[k] = Pointer(kwargs[k])
        /\ (\E k \in DOMAIN kwargs \ {"value"} :
                kwargs[k].kind = "str" /\ ~JSON_POINTER(kwargs[k].val))
              => ~op[1].ok

\* C10 witness: CopyOp.create(path=("/",), from_=()) gave the copy operation
\* with path "/~1" and from_ "".
C10_Witness ==
    /\ call.fn = "create"
    /\ call.cls = "CopyOp"
    /\ kwargs = ("path" :> Tuple(<< <<"/">> >>)) @@ ("from_" :> Tuple(<<>>))
    /\ op # None
    /\ op[1].ok
    /\ op[1].val.fields["path"] = <<"/", "~", "1">>
    /\ op[1].val.fields["from_"] = <<>>

\* C13: a parse or a construction leaves the caller's input as it was,
\* whether it succeeds or fails: the dict handed to model_validate has the
\* keys and values it had before the call, a key from_ included, and so
\* have the keyword arguments handed to create.
C13_InputUnchanged ==
    [][(op = None /\ op' # None) => data' = data /\ kwargs' = kwargs]_vars

(***************************************************************************)
(* JsonPatch                                                               *)
(***************************************************************************)
\* a collection: [kind |-> "list" | "tuple" | "dict", val |-> its elements]
isinstance_Sequence(value) == value.kind \in {"list", "tuple"}

\* Mutant: equal operations are merged, tuple(dict.fromkeys(value))
RECURSIVE Dedup(_)
Dedup(seq) ==
    IF seq = <<>> THEN <<>>
    ELSE LET front == Dedup(SubSeq(seq, 1, Len(seq) - 1))
             last  == seq[Len(seq)]
         IN  IF \E i \in 1..Len(front) : front[i] = last THEN front
             ELSE Append(front, last)

_coerce_seq_to_tuple_dedup(value) ==
    IF isinstance_Sequence(value) /\ value.kind # "tuple"
    THEN [kind |-> "tuple", val |-> Dedup(value.val)]
    ELSE value

\* JsonPatch._coerce_seq_to_tuple
_coerce_seq_to_tuple(value) ==
    IF isinstance_Sequence(value) /\ value.kind # "tuple"
    THEN [kind |-> "tuple", val |-> value.val]
    ELSE value

\* an element that is an operation instance already, not a dict
isinstance_BaseOp(e) == "cls" \in DOMAIN e

\* one element validated as an Operation
ValidateElement(e, mode) ==
    IF isinstance_BaseOp(e) THEN Ok(e) ELSE ValidateOperation(e, mode)

\* Mutant: the elements that fail are left out of the document
ValidateRoot_lenient(value, mode) ==
    LET v == _coerce_seq_to_tuple(value) IN
    IF ~isinstance_Sequence(v) THEN Err({<<"", "sequence_type">>})
    ELSE LET results == [i \in 1..Len(v.val) |-> ValidateElement(v.val[i], mode)]
             valid   == SelectSeq(results, LAMBDA r : r.ok)
         IN  Ok([root |-> [kind |-> v.kind,
                           val  |-> [i \in 1..Len(valid) |-> valid[i].val]]])

\* RootModel[Sequence[Operation]]: the collection keeps its type, each
\* element is validated, every element's errors are reported
ValidateRoot(value, mode) ==
    LET v == _coerce_seq_to_tuple(value) IN
    IF ~isinstance_Sequence(v) THEN Err({<<"", "sequence_type">>})
    ELSE LET results == [i \in 1..Len(v.val) |-> ValidateElement(v.val[i], mode)]
             bad     == {i \in 1..Len(v.val) : ~results[i].ok}
         IN  IF bad # {}
             THEN Err(UNION {{<<i - 1, e>> : e \in results[i].errors} : i \in bad})
             ELSE Ok([root |-> [kind |-> v.kind,
                                val |-> [i \in 1..Len(v.val) |-> results[i].val]]])

\* the caller's collection after the validation: its dicts are the objects
\* the before validators of the operations saw
AfterRoot(value, mode) ==
    IF ~isinstance_Sequence(value) THEN value
    ELSE [kind |-> value.kind,
          val  |-> [i \in 1..Len(value.val) |->
                       IF isinstance_BaseOp(value.val[i]) THEN value.val[i]
                       ELSE AfterOperation(value.val[i], mode)]]

\* JsonPatch.__len__
__len__(self) == Len(self.root.val)

\* tuple.__getitem__ for an int: Option(element), None for IndexError
tuple_getitem(t, index) ==
    LET i == IF index < 0 THEN index + Len(t) ELSE index
    IN  IF i < 0 \/ i >= Len(t) THEN None ELSE Some(t[i + 1])

\* JsonPatch.__getitem__
__getitem__(self, index) == tuple_getitem(self.root.val, index)

\* JsonPatch.__iter__
__iter__(self) == self.root.val

\* Sequence.__reversed__: for i in reversed(range(len(self))): yield self[i]
__reversed__(self) ==
    [k \in 1..__len__(self) |-> __getitem__(self, __len__(self) - k)[1]]

\* Sequence.index from position i on: Option(position), None for ValueError
RECURSIVE index_from(_, _, _)
index_from(self, value, i) ==
    IF __getitem__(self, i) = None THEN None
    ELSE IF __getitem__(self, i)[1] = value THEN Some(i)
    ELSE index_from(self, value, i + 1)

\* Sequence.index
index(self, value) == index_from(self, value, 0)

\* Sequence.count: sum(1 for v in self if v is value or v == value)
count(self, value) ==
    Cardinality({k \in 1..Len(__iter__(self)) : __iter__(self)[k] = value})

\* Sequence.__contains__
__contains__(self, value) ==
    \E k \in 1..Len(__iter__(self)) : __iter__(self)[k] = value

\* ConfigDict(frozen=True) of JsonPatch
JsonPatch_frozen == TRUE

(***************************************************************************)
(* JsonPatch built, read and assigned to                                   *)
(***************************************************************************)
\* the keyword arguments the operations of the collections are created from
PatchKwargs(cls) ==
    LET paths == IF cls \in {"AddOp", "RemoveOp"} THEN {<<>>, <<"/">>}
                 ELSE {<<"/">>}
    IN  {kw \in {("path" :> Str(p)) : p \in paths}
                    \cup {("path" :> Str(p)) @@ ("from_" :> Str(<<>>)) : p \in paths}
                    \cup {("path" :> Str(p)) @@ ("value" :> 42) : p \in paths} :
            DOMAIN kw = create_params(cls)}

\* the operations the collections are made of
PatchOps ==
    UNION {{create(cls, kw).val : kw \in PatchKwargs(cls)} : cls \in Classes}

\* objects that are no operation: an unknown op, a copy without from, a
\* test whose path is no pointer, a copy whose from is a number
BadDicts ==
    {("op" :> "bogus"),
     ("op" :> "copy") @@ ("path" :> <<"/">>) @@ ("value" :> 42),
     ("op" :> "test") @@ ("path" :> <<"~">>) @@ ("value" :> 42),
     ("op" :> "copy") @@ ("path" :> <<"/">>) @@ ("from" :> Int123)}

\* the members of a JSON array: the operations on the wire, and the objects
\* that are no operation
PatchDicts == {model_dump(o, TRUE) : o \in PatchOps} \cup BadDicts

SeqsUpTo(S, n) == UNION {[1..k -> S] : k \in 0..n}

PatchInit ==
    /\ \/ /\ items \in {[kind |-> kd, val |-> v] :
                           kd \in {"list", "tuple"}, v \in SeqsUpTo(PatchOps, MaxOps)}
                       \cup {[kind |-> "dict", val |-> <<>>]}
          /\ call = [fn |-> "", cls |-> "JsonPatch", mode |-> "python"]
       \/ /\ items \in {[kind |-> "list", val |-> v] : v \in SeqsUpTo(PatchDicts, MaxOps)}
                       \cup {[kind |-> "dict", val |-> <<>>]}
          /\ call = [fn |-> "", cls |-> "JsonPatch", mode |-> "json"]
    /\ patch = None
    /\ ret = None
    /\ raised = ""
    /\ data = NoDict
    /\ kwargs = NoDict
    /\ dump = NoDump
    /\ op = None
    /\ wire = None
    /\ op2 = None
    /\ CodecIdle
    /\ TokenIdle

Called(fn) == [fn |-> fn, cls |-> "JsonPatch", mode |-> call.mode]

\* JsonPatch(items) and JsonPatch.model_validate_json(items)
Construct ==
    /\ patch = None
    /\ call' = Called(IF call.mode = "json" THEN "model_validate_json" ELSE "__init__")
    /\ patch' = Some(ValidateRoot(items, call.mode))
    /\ items' = AfterRoot(items, call.mode)
    /\ raised' = Raised(ValidateRoot(items, call.mode))
    /\ UNCHANGED <<ret, data, kwargs, dump, op, wire, op2, codecVars, tokenVars>>

Built == patch # None /\ patch[1].ok
Self  == patch[1].val

\* a read that returns value
Returns(fn, arg, value) ==
    /\ call' = Called(fn)
    /\ ret' = Some([arg |-> arg, val |-> value])
    /\ raised' = ""
    /\ UNCHANGED <<items, patch, data, kwargs, dump, op, wire, op2, codecVars, tokenVars>>

\* a call that raises
Raises(fn, arg, exception) ==
    /\ call' = Called(fn)
    /\ ret' = Some([arg |-> arg])
    /\ raised' = exception
    /\ UNCHANGED <<items, patch, data, kwargs, dump, op, wire, op2, codecVars, tokenVars>>

\* len(patch)
CallLen == Built /\ Returns("__len__", <<>>, __len__(Self))

\* patch[i]
CallGetItem(i) ==
    /\ Built
    /\ IF __getitem__(Self, i) = None
       THEN Raises("__getitem__", <<i>>, "IndexError")
       ELSE Returns("__getitem__", <<i>>, __getitem__(Self, i)[1])

\* list(patch)
CallIter == Built /\ Returns("__iter__", <<>>, __iter__(Self))

\* list(reversed(patch))
CallReversed == Built /\ Returns("__reversed__", <<>>, __reversed__(Self))

\* patch.index(x)
CallIndex(x) ==
    /\ Built
    /\ IF index(Self, x) = None
       THEN Raises("index", <<x>>, "ValueError")
       ELSE Returns("index", <<x>>, index(Self, x)[1])

\* patch.count(x)
CallCount(x) == Built /\ Returns("count", <<x>>, count(Self, x))

\* x in patch
CallContains(x) == Built /\ Returns("__contains__", <<x>>, __contains__(Self, x))

\* patch.root = new
SetRoot(new) ==
    /\ Built
    /\ call' = Called("__setattr__")
    /\ ret' = Some([arg |-> <<"root">>])
    /\ IF JsonPatch_frozen
       THEN raised' = "ValidationError" /\ patch' = patch
       ELSE raised' = "" /\ patch' = Some(Ok([root |-> new]))
    /\ UNCHANGED <<items, data, kwargs, dump, op, wire, op2, codecVars, tokenVars>>

\* patch.root[i] = x
SetRootItem(i, x) ==
    /\ Built
    /\ i \in 0..(__len__(Self) - 1)
    /\ call' = Called("root.__setitem__")
    /\ ret' = Some([arg |-> <<i>>])
    /\ IF Self.root.kind = "tuple"
       THEN raised' = "TypeError" /\ patch' = patch
       ELSE /\ raised' = ""
            /\ patch' = Some(Ok([root |-> [kind |-> Self.root.kind,
                                           val  |-> [Self.root.val EXCEPT ![i + 1] = x]]]))
    /\ UNCHANGED <<items, data, kwargs, dump, op, wire, op2, codecVars, tokenVars>>

\* patch[i].<field> = v
SetOpAttr(i, field, v) ==
    /\ Built
    /\ i \in 0..(__len__(Self) - 1)
    /\ field \in DOMAIN Self.root.val[i + 1].fields
    /\ call' = Called("op.__setattr__")
    /\ ret' = Some([arg |-> <<i, field>>])
    /\ IF config_frozen
       THEN raised' = "ValidationError" /\ patch' = patch
       ELSE /\ raised' = ""
            /\ patch' = Some(Ok([root |-> [kind |-> Self.root.kind,
                   val |-> [Self.root.val EXCEPT ![i + 1].fields[field] = v]]]))
    /\ UNCHANGED <<items, data, kwargs, dump, op, wire, op2, codecVars, tokenVars>>

\* the values assigned: another tag, another pointer, another payload
Assigned(field) ==
    IF field = "op" THEN {"copy", "add"}
    ELSE IF field = "value" THEN {7}
    ELSE {<<"/", "0">>}

PatchNext ==
    \/ Construct
    \/ CallLen
    \/ \E i \in (0 - MaxOps - 1)..MaxOps : CallGetItem(i)
    \/ CallIter
    \/ CallReversed
    \/ \E x \in PatchOps : CallIndex(x)
    \/ \E x \in PatchOps : CallCount(x)
    \/ \E x \in PatchOps : CallContains(x)
    \/ \E new \in {[kind |-> "list", val |-> <<>>]} : SetRoot(new)
    \/ \E i \in 0..(MaxOps - 1), x \in {o \in PatchOps : o.cls = "RemoveOp"} :
          SetRootItem(i, x)
    \/ \E i \in 0..(MaxOps - 1), field \in {"op", "path", "from_", "value"} :
          \E v \in Assigned(field) : SetOpAttr(i, field, v)

SpecPatch == PatchInit /\ [][PatchNext]_vars

(***************************************************************************)
(* Claims about JsonPatch                                                  *)
(***************************************************************************)
SetFns == {"__setattr__", "root.__setitem__", "op.__setattr__"}

InputOps ==
    [i \in 1..Len(items.val) |->
        IF isinstance_BaseOp(items.val[i]) THEN items.val[i]
        ELSE CHOOSE o \in PatchOps : model_dump(o, TRUE) = items.val[i]]

Positions(x) == {k \in 1..Len(items.val) : InputOps[k] = x}

Returned(fn) == ret # None /\ call.fn = fn /\ raised = ""

\* C8: a JsonPatch built from n operations holds exactly those, in the
\* order given, equal elements included: len is n, patch[i] is the i-th,
\* iteration follows the order given and reversed iteration the opposite
\* one, index, count and membership compare by equality of variant and
\* fields, index giving the first position.
C8_SequenceOfInput ==
    Built =>
        LET n == Len(items.val) IN
        /\ Self.root.val = InputOps
        /\ Returned("__len__") => ret[1].val = n
        /\ Returned("__getitem__") =>
              ret[1].val = InputOps[IF ret[1].arg[1] < 0
                                    THEN n + ret[1].arg[1] + 1
                                    ELSE ret[1].arg[1] + 1]
        /\ Returned("__iter__") => ret[1].val = InputOps
        /\ Returned("__reversed__") =>
              /\ Len(ret[1].val) = n
              /\ \A k \in 1..n : ret[1].val[k] = InputOps[n + 1 - k]
        /\ Returned("index") =>
              /\ ret[1].val + 1 \in Positions(ret[1].arg[1])
              /\ \A k \in Positions(ret[1].arg[1]) : ret[1].val + 1 <= k
        /\ (ret # None /\ call.fn = "index" /\ raised = "ValueError") =>
              Positions(ret[1].arg[1]) = {}
        /\ Returned("count") =>
              ret[1].val = Cardinality(Positions(ret[1].arg[1]))
        /\ Returned("__contains__") =>
              (ret[1].val <=> Positions(ret[1].arg[1]) # {})

\* C8 witness: a list holding the same remove operation twice was counted:
\* the document holds both.
C8_Witness ==
    /\ Built
    /\ items.kind = "list"
    /\ Len(items.val) = 2
    /\ isinstance_BaseOp(items.val[1])
    /\ items.val[1] = items.val[2]
    /\ items.val[1].cls = "RemoveOp"
    /\ Returned("count")
    /\ ret[1].arg[1] = items.val[1]
    /\ ret[1].val = 2

\* the element on its own is an operation
ElementParses(e) ==
    isinstance_BaseOp(e) \/ \E o \in PatchOps : model_dump(o, TRUE) = e

MaxTokenLen == 4

Props == {"path_tokens", "from_tokens"}

\* cached_property.attrname: the name of the function it wraps
attrname(prop) == prop

\* Mutant: from_tokens decodes path as path_tokens does
field_of_path(prop) == "path"

\* the field whose value the property's function hands to _load_pointer
field_of(prop) == IF prop = "path_tokens" THEN "path" ELSE "from_"

\* the properties a class has: from_tokens is defined by _FromOp
properties(cls) == IF cls \in FromOps THEN Props ELSE {"path_tokens"}

\* the body of _decode_token behind its lru_cache
decode_cached(cache, token) ==
    IF token \in DOMAIN cache THEN cache[token] ELSE _decode_token(token)

\* Mutant: the tuple is handed over before the generator is exhausted
exhausted_early(tokens, pointer) == TRUE

\* tuple(...) in _load_pointer has consumed every part after the first
exhausted(tokens, pointer) == Len(tokens) = Len(split(pointer, "/")) - 1

\* the key of the lru_cache of _load_pointer: cls and the pointer
load_key(prop) == <<op[1].val.cls, op[1].val.fields[field_of(prop)]>>

TokenPointers == {s \in Strings(Alphabet, MaxTokenLen) : JSON_POINTER(s)}

\* the operations read: a remove of every pointer, and a copy from every
\* pointer to another one
TokenDicts ==
    {("op" :> "remove") @@ ("path" :> s) : s \in TokenPointers}
    \cup {("op" :> "copy") @@ ("from" :> s)
             @@ ("path" :> IF s = <<"/">> THEN <<>> ELSE <<"/">>) :
            s \in TokenPointers}

TokenInit ==
    /\ \E d \in TokenDicts :
          /\ data = d
          /\ op = Some(ValidateOperation(d, "json"))
          /\ op[1].ok
    /\ call = [fn |-> "union", cls |-> "", mode |-> "json"]
    /\ kwargs = NoDict
    /\ dump = NoDump
    /\ wire = None
    /\ op2 = None
    /\ CodecIdle
    /\ PatchIdle
    /\ TokenIdle
    /\ raised = ""

Step(t, next) == threads' = [threads EXCEPT ![t] = next]

\* op.path_tokens / op.from_tokens: the lookup in the instance's __dict__
ReadAttr(t, prop) ==
    /\ threads[t].pc = "idle"
    /\ prop \in properties(op[1].val.cls)
    /\ IF attrname(prop) \in DOMAIN cached
       THEN Step(t, [pc |-> "idle", prop |-> prop, val |-> None,
                     got |-> Some(cached[attrname(prop)])])
       ELSE Step(t, [pc |-> "func", prop |-> prop, val |-> None, got |-> None])
    /\ UNCHANGED <<cached, lru, opVars, codecVars, patchVars, raised>>

\* cached_property.__get__ calls the function: the lookup in the lru_cache
\* of _load_pointer; on a miss _load_pointer starts on an empty tuple
CallLoad(t) ==
    /\ threads[t].pc = "func"
    /\ LET key == load_key(threads[t].prop) IN
       IF key \in DOMAIN lru.load
       THEN Step(t, [threads[t] EXCEPT !.pc = "store", !.val = Some(lru.load[key])])
       ELSE Step(t, [threads[t] EXCEPT !.pc = "load", !.val = Some(<<>>)])
    /\ UNCHANGED <<cached, lru, opVars, codecVars, patchVars, raised>>

\* the generator of _load_pointer yields the next token: _decode_token is
\* called through its lru_cache, which remembers the token
DecodeNext(t) ==
    /\ threads[t].pc = "load"
    /\ LET pointer == load_key(threads[t].prop)[2]
           tokens  == threads[t].val[1]
           token   == split(pointer, "/")[Len(tokens) + 2]
           decoded == decode_cached(lru.decode, token)
       IN  /\ ~exhausted(tokens, pointer)
           /\ Step(t, [threads[t] EXCEPT !.val = Some(Append(tokens, decoded))])
           /\ lru' = [lru EXCEPT !.decode = (token :> decoded) @@ lru.decode]
    /\ UNCHANGED <<cached, opVars, codecVars, patchVars, raised>>

\* _load_pointer returns the tuple: the lru_cache remembers it
ReturnLoad(t) ==
    /\ threads[t].pc = "load"
    /\ exhausted(threads[t].val[1], load_key(threads[t].prop)[2])
    /\ Step(t, [threads[t] EXCEPT !.pc = "store"])
    /\ lru' = [lru EXCEPT !.load = (load_key(threads[t].prop) :> threads[t].val[1])
                                      @@ lru.load]
    /\ UNCHANGED <<cached, opVars, codecVars, patchVars, raised>>

\* cached_property.__get__ stores the value in __dict__ and returns it
Store(t) ==
    /\ threads[t].pc = "store"
    /\ cached' = (attrname(threads[t].prop) :> threads[t].val[1]) @@ cached
    /\ Step(t, [threads[t] EXCEPT !.pc = "idle", !.val = None,
                                  !.got = threads[t].val])
    /\ UNCHANGED <<lru, opVars, codecVars, patchVars, raised>>

TokenNext ==
    \/ \E t \in Threads, prop \in Props : ReadAttr(t, prop)
    \/ \E t \in Threads : CallLoad(t)
    \/ \E t \in Threads : DecodeNext(t)
    \/ \E t \in Threads : ReturnLoad(t)
    \/ \E t \in Threads : Store(t)

SpecTokens == TokenInit /\ [][TokenNext]_vars

(***************************************************************************)
(* Claims about the token views                                            *)
(***************************************************************************)
\* one token unescaped, read left to right: "~1" is "/", "~0" is "~"
RECURSIVE Unescape(_)
Unescape(s) ==
    IF s = <<>> THEN <<>>
    ELSE IF Len(s) >= 2 /\ s[1] = "~" /\ s[2] = "0"
         THEN <<"~">> \o Unescape(SubSeq(s, 3, Len(s)))
    ELSE IF Len(s) >= 2 /\ s[1] = "~" /\ s[2] = "1"
         THEN <<"/">> \o Unescape(SubSeq(s, 3, Len(s)))
    ELSE <<s[1]>> \o Unescape(Tail(s))

\* the tokens of what follows a "/", cur being the token read so far
RECURSIVE DecodeFrom(_, _)
DecodeFrom(s, cur) ==
    IF s = <<>> THEN <<Unescape(cur)>>
    ELSE IF s[1] = "/" THEN <<Unescape(cur)>> \o DecodeFrom(Tail(s), <<>>)
    ELSE DecodeFrom(Tail(s), Append(cur, s[1]))

\* the decoding of a pointer: no token for "", else one per "/"
Decode(pointer) == IF pointer = <<>> THEN <<>> ELSE DecodeFrom(Tail(pointer), <<>>)

\* the decoding of the pointer an operation stores for a property
View(prop) ==
    IF prop = "path_tokens" THEN Decode(op[1].val.fields["path"])
    ELSE Decode(op[1].val.fields["from_"])

\* C11: for a constructed operation, whatever reads have been made, the
\* value held for path_tokens is the decoding of path and the value held for
\* from_tokens is the decoding of from_, and so is every value a read
\* returned, the first as the later ones.
C11_TokensAgree ==
    /\ \A prop \in DOMAIN cached : cached[prop] = View(prop)
    /\ \A t \in Threads :
          threads[t].got # None => threads[t].got[1] = View(threads[t].prop)

\* C11 witness: from_tokens of a copy from "/~01" was read twice, the second
\* read from __dict__: both reads gave ("~1",), and path_tokens, read by
\* nobody, is not held.
C11_Witness ==
    /\ op[1].val.cls = "CopyOp"
    /\ op[1].val.fields["from_"] = <<"/", "~", "0", "1">>
    /\ DOMAIN cached = {"from_tokens"}
    /\ \A t \in Threads :
          /\ threads[t].pc = "idle"
          /\ threads[t].prop = "from_tokens"
          /\ threads[t].got = Some(<< <<"~", "1">> >>)
    /\ Cardinality(DOMAIN lru.load) = 1

\* a read by thread t returns in this step
ReadReturns(t) == threads[t] # threads'[t] /\ threads'[t].pc = "idle"

\* C14: whatever the interleaving of the threads reading the token views of
\* one operation, every read that returns gives the whole decoding of the
\* pointer the operation stores, never nothing, a part of it or another
\* tuple, and no step of a read changes the operation.
C14_ReadersAgree ==
    [][/\ op' = op
       /\ \A t \in Threads :
             ReadReturns(t) => threads'[t].got = Some(View(threads'[t].prop))]_vars

\* C14 witness: two threads raced on the first read of path_tokens of "/a/0":
\* both missed __dict__, one has stored and returned ("a", "0"), the other
\* holds the same tuple and is about to store it again.
C14_Witness ==
    /\ op[1].val.fields["path"] = <<"/", "a", "/", "0">>
    /\ \E t, u \in Threads :
          /\ threads[t].prop = "path_tokens"
          /\ threads[t].pc = "idle"
          /\ threads[t].got = Some(<< <<"a">>, <<"0">> >>)
          /\ threads[u].prop = "path_tokens"
          /\ threads[u].pc = "store"
          /\ threads[u].val = threads[t].got
    /\ "path_tokens" \in DOMAIN cached
====
